---------------------------- MODULE Spec2Model ----------------------------
(***************************************************************************)
(* A model of the incremental SHA-256 engine (crypto/src/sha256.rs), the   *)
(* fixed-size digest type with its hex codec and the Hasher / Hashable     *)
(* contracts (core/src/crypto.rs).                                         *)
(*                                                                         *)
(* Representation of the machine integers:                                 *)
(*   u8   a number in 0..255                                               *)
(*   u32  a pair <<hi, lo>> of 16-bit halves (value hi * 2^16 + lo)        *)
(*   u64  a tuple <<l3, l2, l1, l0>> of 16-bit limbs, most significant     *)
(*        first                                                            *)
(* so that every operation keeps the width the source gives it.            *)
(***************************************************************************)
EXTENDS Integers, Sequences, FiniteSets, TLC

(***************************************************************************)
(* Bit operations on u8 and u32.                                           *)
(***************************************************************************)

\* One bit position of the three bitwise operators of the source.
BitXor1(a, b) == (a + b) % 2
BitAnd1(a, b) == a * b

\* 4-bit tables of `^` and `&`, built bit by bit.
Xor4 ==
  [a \in 0..15 |-> [b \in 0..15 |->
      BitXor1(a % 2, b % 2)
    + 2 * BitXor1((a \div 2) % 2, (b \div 2) % 2)
    + 4 * BitXor1((a \div 4) % 2, (b \div 4) % 2)
    + 8 * BitXor1((a \div 8) % 2, (b \div 8) % 2)]]

And4 ==
  [a \in 0..15 |-> [b \in 0..15 |->
      BitAnd1(a % 2, b % 2)
    + 2 * BitAnd1((a \div 2) % 2, (b \div 2) % 2)
    + 4 * BitAnd1((a \div 4) % 2, (b \div 4) % 2)
    + 8 * BitAnd1((a \div 8) % 2, (b \div 8) % 2)]]

\* 8-bit tables of `^` and `&`.
Xor8 ==
  [a \in 0..255 |-> [b \in 0..255 |->
    16 * Xor4[a \div 16][b \div 16] + Xor4[a % 16][b % 16]]]

And8 ==
  [a \in 0..255 |-> [b \in 0..255 |->
    16 * And4[a \div 16][b \div 16] + And4[a % 16][b % 16]]]

\* `^`, `&` and `|` on 16-bit halves.
Xor16(a, b) == 256 * Xor8[a \div 256][b \div 256] + Xor8[a % 256][b % 256]
And16(a, b) == 256 * And8[a \div 256][b \div 256] + And8[a % 256][b % 256]
Or16(a, b)  == a + b - And16(a, b)

\* u32 `^`, `&`, `!`.
xor(x, y)  == <<Xor16(x[1], y[1]), Xor16(x[2], y[2])>>
and(x, y)  == <<And16(x[1], y[1]), And16(x[2], y[2])>>
not(x)     == <<65535 - x[1], 65535 - x[2]>>

\* u32::wrapping_add: addition modulo 2^32.
wrapping_add(x, y) ==
  LET lo == x[2] + y[2]
      hi == x[1] + y[1] + (lo \div 65536)
  IN  <<hi % 65536, lo % 65536>>

\* u32::rotate_right(n), 0 < n < 32.
rotate_right(x, n) ==
  LET w == IF n >= 16 THEN <<x[2], x[1]>> ELSE x
      k == n % 16
      p == 2 ^ k
      q == 2 ^ (16 - k)
  IN  IF k = 0 THEN w
      ELSE <<(w[1] \div p) + (w[2] % p) * q, (w[2] \div p) + (w[1] % p) * q>>

\* u32 `>>` n, 0 < n < 16.
shr(x, n) ==
  LET p == 2 ^ n
      q == 2 ^ (16 - n)
  IN  <<x[1] \div p, (x[2] \div p) + (x[1] % p) * q>>

\* u32::from_be_bytes and u32::to_be_bytes.
from_be_bytes(b0, b1, b2, b3) == <<b0 * 256 + b1, b2 * 256 + b3>>
to_be_bytes(w) == <<w[1] \div 256, w[1] % 256, w[2] \div 256, w[2] % 256>>

(***************************************************************************)
(* SHA256: constants and the round functions.                              *)
(***************************************************************************)

SEED ==
  << <<\h6a09, \he667>>, <<\hbb67, \hae85>>, <<\h3c6e, \hf372>>,
     <<\ha54f, \hf53a>>, <<\h510e, \h527f>>, <<\h9b05, \h688c>>,
     <<\h1f83, \hd9ab>>, <<\h5be0, \hcd19>> >>

RoundConstants ==
  << <<\h428a, \h2f98>>, <<\h7137, \h4491>>, <<\hb5c0, \hfbcf>>,
     <<\he9b5, \hdba5>>, <<\h3956, \hc25b>>, <<\h59f1, \h11f1>>,
     <<\h923f, \h82a4>>, <<\hab1c, \h5ed5>>, <<\hd807, \haa98>>,
     <<\h1283, \h5b01>>, <<\h2431, \h85be>>, <<\h550c, \h7dc3>>,
     <<\h72be, \h5d74>>, <<\h80de, \hb1fe>>, <<\h9bdc, \h06a7>>,
     <<\hc19b, \hf174>>, <<\he49b, \h69c1>>, <<\hefbe, \h4786>>,
     <<\h0fc1, \h9dc6>>, <<\h240c, \ha1cc>>, <<\h2de9, \h2c6f>>,
     <<\h4a74, \h84aa>>, <<\h5cb0, \ha9dc>>, <<\h76f9, \h88da>>,
     <<\h983e, \h5152>>, <<\ha831, \hc66d>>, <<\hb003, \h27c8>>,
     <<\hbf59, \h7fc7>>, <<\hc6e0, \h0bf3>>, <<\hd5a7, \h9147>>,
     <<\h06ca, \h6351>>, <<\h1429, \h2967>>, <<\h27b7, \h0a85>>,
     <<\h2e1b, \h2138>>, <<\h4d2c, \h6dfc>>, <<\h5338, \h0d13>>,
     <<\h650a, \h7354>>, <<\h766a, \h0abb>>, <<\h81c2, \hc92e>>,
     <<\h9272, \h2c85>>, <<\ha2bf, \he8a1>>, <<\ha81a, \h664b>>,
     <<\hc24b, \h8b70>>, <<\hc76c, \h51a3>>, <<\hd192, \he819>>,
     <<\hd699, \h0624>>, <<\hf40e, \h3585>>, <<\h106a, \ha070>>,
     <<\h19a4, \hc116>>, <<\h1e37, \h6c08>>, <<\h2748, \h774c>>,
     <<\h34b0, \hbcb5>>, <<\h391c, \h0cb3>>, <<\h4ed8, \haa4a>>,
     <<\h5b9c, \hca4f>>, <<\h682e, \h6ff3>>, <<\h748f, \h82ee>>,
     <<\h78a5, \h636f>>, <<\h84c8, \h7814>>, <<\h8cc7, \h0208>>,
     <<\h90be, \hfffa>>, <<\ha450, \h6ceb>>, <<\hbef9, \ha3f7>>,
     <<\hc671, \h78f2>> >>

\* A faulty variant of ch: the complement of x forgotten.
ch_without_not(x, y, z) == xor(and(x, y), and(x, z))

\* A faulty variant of gamma0: the shift by 3 made a rotation.
gamma0_rotating(x) ==
  xor(xor(rotate_right(x, 7), rotate_right(x, 18)), rotate_right(x, 3))

ch(x, y, z)  == xor(and(x, y), and(not(x), z))
maj(x, y, z) == xor(xor(and(x, y), and(x, z)), and(y, z))
sigma0(x) == xor(xor(rotate_right(x, 2), rotate_right(x, 13)), rotate_right(x, 22))
sigma1(x) == xor(xor(rotate_right(x, 6), rotate_right(x, 11)), rotate_right(x, 25))
gamma0(x) == xor(xor(rotate_right(x, 7), rotate_right(x, 18)), shr(x, 3))
gamma1(x) == xor(xor(rotate_right(x, 17), rotate_right(x, 19)), shr(x, 10))

\* The first loop of update_block: words[0..16] from the block, big-endian.
LoadWords(block) ==
  [i \in 1..16 |->
     from_be_bytes(block[4 * i - 3], block[4 * i - 2],
                   block[4 * i - 1], block[4 * i])]

\* The second loop of update_block: words[16..64].  `words` holds words[0..i]
\* (1-based: words[j + 1] is the source's words[j]).  The test `next = next`
\* only makes the evaluator compute each step before the following one.
RECURSIVE ExtendWords(_)
ExtendWords(words) ==
  IF Len(words) = 64 THEN words
  ELSE LET i  == Len(words)
           s0 == gamma0(words[i - 15 + 1])
           s1 == gamma1(words[i - 2 + 1])
           w  == wrapping_add(
                   wrapping_add(wrapping_add(words[i - 16 + 1], s0),
                                words[i - 7 + 1]),
                   s1)
           next == Append(words, w)
       IN  IF next = next THEN ExtendWords(next) ELSE next

\* One iteration of the third loop of update_block on the working variables
\* v = <<a, b, c, d, e, f, g, h>>.
Round(v, k, w) ==
  LET s1    == sigma1(v[5])
      c     == ch(v[5], v[6], v[7])
      temp1 == wrapping_add(
                 wrapping_add(wrapping_add(wrapping_add(v[8], s1), c), k), w)
      s0    == sigma0(v[1])
      m     == maj(v[1], v[2], v[3])
      temp2 == wrapping_add(s0, m)
  IN  <<wrapping_add(temp1, temp2), v[1], v[2], v[3],
        wrapping_add(v[4], temp1), v[5], v[6], v[7]>>

RECURSIVE Rounds(_, _, _)
Rounds(v, words, i) ==
  IF i > 64 THEN v
  ELSE LET next == Round(v, RoundConstants[i], words[i])
       IN  IF next = next THEN Rounds(next, words, i + 1) ELSE next

\* SHA256::update_block on the eight hash words: the new hash words.
Compress(hash, block) ==
  LET words == ExtendWords(LoadWords(block))
      v     == Rounds(hash, words, 1)
  IN  [k \in 1..8 |-> wrapping_add(hash[k], v[k])]

(***************************************************************************)
(* u64 arithmetic on the byte counter.                                     *)
(***************************************************************************)

\* The u64 with value n, for a small n.
U64(n) == <<0, 0, n \div 65536, n % 65536>>

\* x + n for a u64 x and a small n: the wrapped sum and whether it overflowed.
u64_add(x, n) ==
  LET s0 == x[4] + n
      s1 == x[3] + (s0 \div 65536)
      s2 == x[2] + (s1 \div 65536)
      s3 == x[1] + (s2 \div 65536)
  IN  [val |-> <<s3 % 65536, s2 % 65536, s1 % 65536, s0 % 65536>>,
       overflow |-> s3 >= 65536]

\* x * 8 for a u64 x: the wrapped product and whether it overflowed.
u64_mul8(x) ==
  LET s0 == x[4] * 8
      s1 == x[3] * 8 + (s0 \div 65536)
      s2 == x[2] * 8 + (s1 \div 65536)
      s3 == x[1] * 8 + (s2 \div 65536)
  IN  [val |-> <<s3 % 65536, s2 % 65536, s1 % 65536, s0 % 65536>>,
       overflow |-> s3 >= 65536]

\* x % 64 for a u64 x.
u64_mod64(x) == x[4] % 64

\* u64::to_be_bytes.
u64_to_be_bytes(x) ==
  <<x[1] \div 256, x[1] % 256, x[2] \div 256, x[2] % 256,
    x[3] \div 256, x[3] % 256, x[4] \div 256, x[4] % 256>>

(***************************************************************************)
(* Block and the SHA256 engine.                                            *)
(***************************************************************************)

\* Block::SIZE.
BlockSize == 64

\* Block::zeroed().
zeroed == [i \in 1..BlockSize |-> 0]

\* SHA256::new().
new == [len |-> U64(0), hash |-> SEED, buffer |-> zeroed]

\* A faulty variant of update_block: the block counted in len.
update_block_counting(self, block) ==
  [self EXCEPT !.hash = Compress(self.hash, block),
               !.len = u64_add(self.len, BlockSize).val]

\* SHA256::update_block: only the hash words of self change.
update_block(self, block) ==
  [self EXCEPT !.hash = Compress(self.hash, block)]

\* Faulty variants of the index computations below: a buffer thought one
\* byte larger than it is, and a copy that always starts at the head of the
\* buffer.
space_in_buffer_off_by_one(len) == 65 - u64_mod64(len)
buffer_idx_at_head(len) == 0

\* The three index computations of one iteration of update's loop.
space_in_buffer(len) == 64 - u64_mod64(len)
buffer_idx(len) == u64_mod64(len)

\* A faulty variant of min: the larger of the two.
larger_of(a, b) == IF a <= b THEN b ELSE a

min(a, b) == IF a <= b THEN a ELSE b

\* self.buffer[buffer_idx..buffer_idx + copy_len]
\*   .copy_from_slice(&data[data_idx..data_idx + copy_len])
\* (0-based positions of the source; the sequences are 1-based).
copy_from_slice(buffer, idx, data, data_idx, copy_len) ==
  [i \in 1..BlockSize |->
     IF idx < i /\ i <= idx + copy_len
       THEN data[data_idx + (i - idx)]
       ELSE buffer[i]]

\* copy_len of one iteration of update's loop.
copy_len(self, data, data_idx) ==
  min(space_in_buffer(self.len), Len(data) - data_idx)

\* Whether the two slices of the iteration are in range (Rust panics if not).
slices_in_range(self, data, data_idx) ==
  /\ buffer_idx(self.len) + copy_len(self, data, data_idx) <= BlockSize
  /\ data_idx + copy_len(self, data, data_idx) <= Len(data)

\* A faulty variant of copy_step: the bytes copied are not counted.
copy_step_not_counted(self, data, data_idx) ==
  [self EXCEPT
     !.buffer = copy_from_slice(self.buffer, buffer_idx(self.len), data,
                                data_idx, copy_len(self, data, data_idx))]

\* The copy into the buffer and `self.len += copy_len as u64`.
copy_step(self, data, data_idx) ==
  [self EXCEPT
     !.buffer = copy_from_slice(self.buffer, buffer_idx(self.len), data,
                                data_idx, copy_len(self, data, data_idx)),
     !.len = u64_add(self.len, copy_len(self, data, data_idx)).val]

\* A faulty variant of compress_if_full: the buffer is cleared once it has been
\* compressed.
compress_if_full_clearing(r, copied) ==
  IF u64_mod64(copied.len) = 0
    THEN [r EXCEPT !.self   = [update_block(copied, copied.buffer)
                                 EXCEPT !.buffer = zeroed],
                   !.iters  = r.iters + 1,
                   !.blocks = Append(r.blocks, copied.buffer)]
    ELSE [r EXCEPT !.self = copied, !.iters = r.iters + 1]

\* `if self.len % 64 == 0 { self.update_block(&self.buffer.clone()) }`, with
\* the call's record of iterations and compressed blocks brought up to date.
compress_if_full(r, copied) ==
  IF u64_mod64(copied.len) = 0
    THEN [r EXCEPT !.self   = update_block(copied, copied.buffer),
                   !.iters  = r.iters + 1,
                   !.blocks = Append(r.blocks, copied.buffer)]
    ELSE [r EXCEPT !.self = copied, !.iters = r.iters + 1]

\* One iteration of the loop of SHA256::update.  r is the record of the calls
\* on the engine so far: the engine (self), whether a call panicked, the
\* iterations made, the blocks compressed and the bytes passed to update.
\* A slice out of range panics; so does an overflow of
\* `self.len += ...` in a build with overflow checks (checks = TRUE), which
\* wraps otherwise.
update_iteration(r, data, data_idx, checks) ==
  IF \/ ~slices_in_range(r.self, data, data_idx)
     \/ (u64_add(r.self.len, copy_len(r.self, data, data_idx)).overflow /\ checks)
    THEN [r EXCEPT !.panicked = TRUE, !.iters = r.iters + 1]
    ELSE compress_if_full(r, copy_step(r.self, data, data_idx))

\* `while data_idx < data.len()` of SHA256::update, from position data_idx on.
\* (The test `next = next` of update_continue only makes the evaluator compute
\* an iteration before the following one.)
RECURSIVE update_loop(_, _, _, _)
update_continue(next, data, data_idx, checks) ==
  IF next = next THEN update_loop(next, data, data_idx, checks) ELSE next

\* A faulty variant of update_loop: the test made after the first iteration.
update_loop_test_last(r, data, data_idx, checks) ==
  IF r.panicked \/ (r.iters > 0 /\ ~(data_idx < Len(data))) THEN r
  ELSE update_continue(update_iteration(r, data, data_idx, checks), data,
                       data_idx + copy_len(r.self, data, data_idx), checks)

update_loop(r, data, data_idx, checks) ==
  IF r.panicked \/ ~(data_idx < Len(data)) THEN r
  ELSE update_continue(update_iteration(r, data, data_idx, checks), data,
                       data_idx + copy_len(r.self, data, data_idx), checks)

\* Hasher::update for SHA256, on the engine of the record r.
hasher_update(r, data, checks) ==
  update_loop([r EXCEPT !.passed = r.passed \o data], data, 0, checks)

\* The record of an engine on which no call has been made yet.
no_calls(self) ==
  [self |-> self, panicked |-> FALSE, iters |-> 0, blocks |-> <<>>,
   passed |-> <<>>]

\* Hasher::update for SHA256.
update(self, data, checks) == hasher_update(no_calls(self), data, checks)

\* A faulty variant of needs_extra_block: a tail of 56 bytes thought to leave
\* room for the length.
needs_extra_block_above(n) == n > 56

\* `if buffer.len() >= 56` of digest: the padded tail needs a block of its own.
needs_extra_block(n) == n >= 56

\* The position of the 0x80 byte in the padding block (0-based).
pad_position(n) == n

\* A faulty variant of pad_tail: the padding written into the buffer itself
\* instead of a zeroed block.
pad_tail_in_buffer(buffer, n) ==
  [i \in 1..BlockSize |->
     IF i = pad_position(n) + 1 THEN 128 ELSE buffer[i]]

\* The padding block of digest: the tail buffer[..n] followed by 0x80.
pad_tail(buffer, n) ==
  [i \in 1..BlockSize |->
     IF i <= n THEN buffer[i]
     ELSE IF i = pad_position(n) + 1 THEN 128
     ELSE 0]

\* padded[56..].copy_from_slice(&length.to_be_bytes())
put_length(padded, length) ==
  [i \in 1..BlockSize |->
     IF i > 56 THEN u64_to_be_bytes(length)[i - 56] ELSE padded[i]]

\* The loop of digest that writes the hash words into the Digest.
hash_to_digest(hash) ==
  [i \in 1..32 |-> to_be_bytes(hash[((i - 1) \div 4) + 1])[((i - 1) % 4) + 1]]

\* The end of digest: the last block is compressed and the hash words are
\* written into the Digest.
digest_last(first, last, padded, extra) ==
  [digest   |-> hash_to_digest(update_block(first, last).hash),
   panicked |-> FALSE,
   blocks   |-> IF extra THEN <<padded, last>> ELSE <<last>>]

\* The middle of digest: `if buffer.len() >= 56 { ... }` and the length.
digest_blocks(self, padded, length, extra) ==
  digest_last(IF extra THEN update_block(self, padded) ELSE self,
              put_length(IF extra THEN zeroed ELSE padded, length),
              padded, extra)

\* Hasher::digest for SHA256.  The result: the digest, whether the call
\* panicked, and the blocks compressed.  `self.len * 8` panics on overflow in a
\* build with overflow checks and wraps otherwise; an index past the end of
\* the padding block panics.
digest(self, checks) ==
  IF \/ (u64_mul8(self.len).overflow /\ checks)
     \/ pad_position(u64_mod64(self.len)) >= BlockSize
    THEN [digest |-> <<>>, panicked |-> TRUE, blocks |-> <<>>]
    ELSE digest_blocks(self, pad_tail(self.buffer, u64_mod64(self.len)),
                       u64_mul8(self.len).val,
                       needs_extra_block(u64_mod64(self.len)))

\* sha256::hash_bytes.
hash_bytes(bytes, checks) == digest(update(new, bytes, checks).self, checks)

(***************************************************************************)
(* FixedDigest<N>: the checked hex parser and the hex formatter.  A text   *)
(* (&str) is the sequence of its characters, each a Unicode code point; a  *)
(* digest is the sequence of its N bytes.                                  *)
(***************************************************************************)

\* The UTF-8 encoding of one character.
utf8(c) ==
  IF c < 128 THEN <<c>>
  ELSE IF c < 2048 THEN <<192 + (c \div 64), 128 + (c % 64)>>
  ELSE <<224 + (c \div 4096), 128 + ((c \div 64) % 64), 128 + (c % 64)>>

\* str::as_bytes: the UTF-8 bytes of the text.
RECURSIVE as_bytes(_)
as_bytes(s) == IF s = <<>> THEN <<>> ELSE utf8(Head(s)) \o as_bytes(Tail(s))

\* str::len: the length of the text in bytes.
str_len(s) == Len(as_bytes(s))

\* char::from(u8): the character U+0000..U+00FF with the value of the byte.
char_from(byte) == byte

\* Result<_, ParseDigestError>.
Ok(v) == [ok |-> TRUE, value |-> v]
BadChar(chr) == [ok |-> FALSE, kind |-> "BadChar", found |-> chr]
BadLength(len) == [ok |-> FALSE, kind |-> "BadLength", found |-> len]

\* FixedDigest::hex_digit_to_u8.
hex_digit_to_u8(ascii) ==
  LET chr == char_from(ascii)
  IN  CASE 48 <= chr /\ chr <= 57 -> Ok(chr - 48)
        [] chr = 97  \/ chr = 65 -> Ok(10)
        [] chr = 98  \/ chr = 66 -> Ok(11)
        [] chr = 99  \/ chr = 67 -> Ok(12)
        [] chr = 100 \/ chr = 68 -> Ok(13)
        [] chr = 101 \/ chr = 69 -> Ok(14)
        [] chr = 102 \/ chr = 70 -> Ok(15)
        [] OTHER -> BadChar(chr)

\* u8 `<< 4` and u8 `|`.
shl4(v) == (v * 16) % 256
or8(a, b) == Or16(a, b)

\* FixedDigest::zeroed.
digest_zeroed(N) == [i \in 1..N |-> 0]

\* The loop of from_str from byte i on; `?` returns the first error met, that
\* of c0 before that of c1.
RECURSIVE from_str_loop(_, _, _, _)
from_str_loop(N, bytes, i, digest_so_far) ==
  IF i = N THEN Ok(digest_so_far)
  ELSE LET h0 == hex_digit_to_u8(bytes[i * 2 + 1])
           h1 == hex_digit_to_u8(bytes[i * 2 + 2])
       IN  IF ~h0.ok THEN h0
           ELSE IF ~h1.ok THEN h1
           ELSE from_str_loop(N, bytes, i + 1,
                  [digest_so_far EXCEPT ![i + 1] = or8(shl4(h0.value), h1.value)])

\* A faulty variant of length_ok: a text that is too long accepted.
length_at_least(N, len) == len >= 2 * N

\* `s.len() != 2 * N` of from_str, negated.
length_ok(N, len) == len = 2 * N

\* FixedDigest::from_str.
from_str(N, s) ==
  IF ~length_ok(N, str_len(s)) THEN BadLength(str_len(s))
  ELSE from_str_loop(N, as_bytes(s), 0, digest_zeroed(N))

\* A faulty variant of hex_char: upper-case digits.
hex_char_upper(d) == IF d < 10 THEN 48 + d ELSE 65 + (d - 10)

\* One digit of `{:x}`, and `{:02x}` of a byte.
hex_char(d) == IF d < 10 THEN 48 + d ELSE 97 + (d - 10)
format_02x(v) == <<hex_char(v \div 16), hex_char(v % 16)>>

\* Display for FixedDigest: the text written.
RECURSIVE fmt(_)
fmt(d) == IF d = <<>> THEN <<>> ELSE format_02x(Head(d)) \o fmt(Tail(d))

(***************************************************************************)
(* Hashable: what each kind of object passes to Hasher::update.  An        *)
(* integer is given by its width, its signedness, its sign and its         *)
(* magnitude; the magnitude is a sequence of limbs, the most significant   *)
(* first: one limb below 2^8 for the 8-bit types, bits / 16 limbs below    *)
(* 2^16 for the others.                                                    *)
(***************************************************************************)
Integer(bits, signed, neg, mag) ==
  [type |-> "int", bits |-> bits, signed |-> signed, neg |-> neg, mag |-> mag]
Bool(b) == [type |-> "bool", value |-> b]
Str(chars) == [type |-> "str", chars |-> chars]
Slice(items) == [type |-> "slice", items |-> items]
FixedDigest(bytes) == [type |-> "digest", bytes |-> bytes]

\* The base of the limbs of an integer of the given width.
limb_base(bits) == IF bits = 8 THEN 256 ELSE 65536

\* limbs + 1 modulo base^Len(limbs), the carry moving up from limb i.
RECURSIVE increment(_, _, _)
increment(limbs, i, base) ==
  IF i = 0 THEN limbs
  ELSE IF limbs[i] + 1 < base THEN [limbs EXCEPT ![i] = limbs[i] + 1]
  ELSE increment([limbs EXCEPT ![i] = 0], i - 1, base)

\* Every limb complemented.
RECURSIVE complement(_, _)
complement(limbs, base) ==
  IF limbs = <<>> THEN <<>>
  ELSE <<base - 1 - Head(limbs)>> \o complement(Tail(limbs), base)

\* The bit pattern of an integer: its magnitude, or the two's complement of
\* the magnitude if it is negative.
twos_complement(v) ==
  IF v.neg
  THEN increment(complement(v.mag, limb_base(v.bits)), Len(v.mag), limb_base(v.bits))
  ELSE v.mag

\* The bytes of a sequence of 16-bit limbs, the high byte of each first.
RECURSIVE limbs_to_be_bytes(_)
limbs_to_be_bytes(limbs) ==
  IF limbs = <<>> THEN <<>>
  ELSE <<Head(limbs) \div 256, Head(limbs) % 256>> \o limbs_to_be_bytes(Tail(limbs))

\* A faulty variant of int_to_be_bytes: the least significant byte first.
int_to_le_bytes(v) ==
  LET be == IF v.bits = 8 THEN twos_complement(v)
            ELSE limbs_to_be_bytes(twos_complement(v))
  IN  [i \in 1..Len(be) |-> be[Len(be) + 1 - i]]

\* to_be_bytes of u8 .. u128 and i8 .. i128.
int_to_be_bytes(v) ==
  IF v.bits = 8 THEN twos_complement(v)
  ELSE limbs_to_be_bytes(twos_complement(v))

\* `*self as u8` of a bool.
bool_as_u8(b) == IF b THEN 1 ELSE 0

\* The bytes that the update_hash of an object other than a slice passes to
\* Hasher::update.
encoding(obj) ==
  CASE obj.type = "int" -> int_to_be_bytes(obj)
    [] obj.type = "bool" -> <<bool_as_u8(obj.value)>>
    [] obj.type = "str" -> as_bytes(obj.chars)
    [] obj.type = "digest" -> obj.bytes

RECURSIVE update_hash(_, _, _)
RECURSIVE update_hash_each(_, _, _)

\* A faulty variant of update_hash_each: the number of elements left is fed
\* before each element.
update_hash_each_counted(items, r, checks) ==
  IF items = <<>> THEN r
  ELSE update_hash_each(Tail(items),
         update_hash(Head(items),
                     update_hash(Integer(8, FALSE, FALSE, <<Len(items)>>), r, checks),
                     checks),
         checks)

\* `for v in self { v.update_hash(hasher) }` of Hashable for [T].
update_hash_each(items, r, checks) ==
  IF items = <<>> THEN r
  ELSE update_hash_each(Tail(items), update_hash(Head(items), r, checks), checks)

\* Hashable::update_hash, r being the record of the hasher's calls so far.
update_hash(obj, r, checks) ==
  IF obj.type = "slice" THEN update_hash_each(obj.items, r, checks)
  ELSE hasher_update(r, encoding(obj), checks)

(***************************************************************************)
(* The callers of the engine: the byte slices they pass.                   *)
(***************************************************************************)

\* The longest input an engine of Spec is fed, in bytes.
MaxFed == 129

\* The longest input an engine of SpecPair is fed, in bytes.
MaxPairFed == 3

\* "Lorem ipsum dolor sit amet, consectetur adipiscing elit. Sed at."
\* (sha256_input_exact_block_length): 64 bytes.
Lorem64 ==
  <<76, 111, 114, 101, 109, 32, 105, 112, 115, 117, 109, 32, 100,
    111, 108, 111, 114, 32, 115, 105, 116, 32, 97, 109, 101, 116, 44,
    32, 99, 111, 110, 115, 101, 99, 116, 101, 116, 117, 114, 32, 97,
    100, 105, 112, 105, 115, 99, 105, 110, 103, 32, 101, 108, 105,
    116, 46, 32, 83, 101, 100, 32, 97, 116, 46>>

\* "abc" and "Hello, world!" (sha256_input_less_than_block_size).
Abc == <<97, 98, 99>>
HelloWorld == <<72, 101, 108, 108, 111, 44, 32, 119, 111, 114, 108, 100, 33>>

\* Lorem64 repeated up to MaxFed bytes.
LongMessage == [i \in 1..MaxFed |-> Lorem64[((i - 1) % 64) + 1]]

\* The messages the callers hash, each passed in one slice or in several.
Messages == {LongMessage, Abc, HelloWorld}

\* The lengths of the slices passed to update: the empty slice, short ones,
\* the pieces of the tests (5, 2, 6 and 26, 2, 36), and those that end
\* before, on and after a block boundary.
ChunkLens == {0, 1, 2, 5, 6, 26, 36, 55, 56, 63, 64, 65, 128}

IsPrefix(s, t) == Len(s) <= Len(t) /\ SubSeq(t, 1, Len(s)) = s

\* N of the FixedDigest<N> the texts of SpecParse are parsed into.
DigestN == 2

\* The characters of the texts: '0', '9', 'F', 'a', 'g' and U+00E9.
Alphabet == {48, 57, 70, 97, 103, 233}

\* The texts given to from_str: every text of up to 2 * DigestN + 1 characters.
Texts == UNION { [1..k -> Alphabet] : k \in 0..(2 * DigestN + 1) }

\* The most texts a caller of SpecHashable feeds into one hasher.
MaxTexts == 2

\* The widths of the primitive integers.
Widths == {8, 16, 32, 64, 128}

\* The number of limbs of an integer of the given width.
Limbs(bits) == IF bits = 8 THEN 1 ELSE bits \div 16

\* Magnitudes: 0, 1, 2^bits - 1, 2^(bits-1) - 1, 2^(bits-1), and the one whose
\* bytes are 1, 2, 3, ... (0x01020304 for 32 bits).
RECURSIVE Repeat(_, _)
Repeat(limb, n) == IF n = 0 THEN <<>> ELSE <<limb>> \o Repeat(limb, n - 1)
RECURSIVE Counting(_)
Counting(n) ==
  IF n = 0 THEN <<>> ELSE Counting(n - 1) \o <<256 * (2 * n - 1) + 2 * n>>

MagZero(bits) == Repeat(0, Limbs(bits))
MagOne(bits) == Repeat(0, Limbs(bits) - 1) \o <<1>>
MagAllOnes(bits) == Repeat(limb_base(bits) - 1, Limbs(bits))
MagHighBit(bits) == <<limb_base(bits) \div 2>> \o Repeat(0, Limbs(bits) - 1)
MagBelowHighBit(bits) ==
  <<(limb_base(bits) \div 2) - 1>> \o Repeat(limb_base(bits) - 1, Limbs(bits) - 1)
MagCounting(bits) == IF bits = 8 THEN <<1>> ELSE Counting(Limbs(bits))

\* The integers hashed: the extremes of every type and values between.
IntegerObjects ==
  UNION { { Integer(bits, FALSE, FALSE, MagZero(bits)),
            Integer(bits, FALSE, FALSE, MagOne(bits)),
            Integer(bits, FALSE, FALSE, MagCounting(bits)),
            Integer(bits, FALSE, FALSE, MagHighBit(bits)),
            Integer(bits, FALSE, FALSE, MagAllOnes(bits)),
            Integer(bits, TRUE, FALSE, MagZero(bits)),
            Integer(bits, TRUE, FALSE, MagOne(bits)),
            Integer(bits, TRUE, FALSE, MagCounting(bits)),
            Integer(bits, TRUE, FALSE, MagBelowHighBit(bits)),
            Integer(bits, TRUE, TRUE, MagOne(bits)),
            Integer(bits, TRUE, TRUE, MagCounting(bits)),
            Integer(bits, TRUE, TRUE, MagHighBit(bits)) } : bits \in Widths }

U8(n) == Integer(8, FALSE, FALSE, <<n>>)

\* Slices of sized elements, three of them with the bytes of "abcd".
Slices ==
  { Slice(<<>>),
    Slice(<<U8(97), U8(98), U8(99)>>),
    Slice(<<U8(97), U8(98), U8(99), U8(100)>>),
    Slice(<<Integer(16, FALSE, FALSE, <<24930>>), Integer(16, FALSE, FALSE, <<25444>>)>>),
    Slice(<<Integer(32, FALSE, FALSE, <<24930, 25444>>)>>),
    Slice(<<Integer(16, TRUE, TRUE, <<1>>), Integer(16, TRUE, FALSE, <<1>>)>>),
    Slice(<<Bool(TRUE), Bool(FALSE)>>),
    Slice(<<FixedDigest(<<250, 9>>), FixedDigest(<<0, 0>>)>>) }

\* The objects a caller hashes on a fresh hasher.
Objects ==
  IntegerObjects \cup Slices
  \cup {Bool(FALSE), Bool(TRUE), FixedDigest(<<250, 9>>), FixedDigest(<<>>)}

\* The texts a caller feeds one after the other: "", "a", "ab", "bc", "c"
\* and one with a character of two bytes.
TextObjects ==
  {Str(<<>>), Str(<<97>>), Str(<<97, 98>>), Str(<<98, 99>>), Str(<<99>>),
   Str(<<233>>)}

\* The engine values on which single calls are probed: the engine after 0,
\* 1, 55, 56, 63 and 64 bytes of the long message ...
ProbeFedLens == {0, 1, 55, 56, 63, 64}
EngineAfter(n) == update(new, SubSeq(LongMessage, 1, n), TRUE).self

\* ... and engines that were fed 2^61 - 1, 2^61, 2^61 + 56 and 2^64 - 1
\* bytes.  Their buffer holds the last block of the input; the hash words
\* after that many bytes are not computed, the initial ones stand for them.
HugeLens ==
  { <<8191, 65535, 65535, 65535>>, <<8192, 0, 0, 0>>, <<8192, 0, 0, 56>>,
    <<65535, 65535, 65535, 65535>> }
EngineAt(len) == [len |-> len, hash |-> SEED, buffer |-> Lorem64]

ProbeEngines ==
  { EngineAfter(n) : n \in ProbeFedLens } \cup { EngineAt(len) : len \in HugeLens }

\* The slices and blocks passed in a probed call: the empty one, short ones,
\* a block, and ones longer than one and two blocks.
ProbeLens == {0, 1, 2, 64, 65, MaxFed}

\* Two more blocks: every byte 0xff, and the padding block of the empty
\* message.
ProbeBlocks ==
  { [i \in 1..BlockSize |-> 255],
    [i \in 1..BlockSize |-> IF i = 1 THEN 128 ELSE 0] }

ProbeSlices == { SubSeq(LongMessage, 1, n) : n \in ProbeLens } \cup ProbeBlocks

\* The message the two callers of SpecPair hash.
PairMessages == {HelloWorld}

\* The slices a caller that has passed f so far may pass next: what follows f
\* in one of the messages, of at most `most` bytes in all.
NextSlices(f, messages, most) ==
  { SubSeq(c[1], Len(f) + 1, Len(f) + c[2]) :
      c \in { d \in messages \X ChunkLens :
                /\ IsPrefix(f, d[1])
                /\ Len(f) + d[2] <= Len(d[1])
                /\ Len(f) + d[2] <= most } }

(***************************************************************************)
(* The state.                                                              *)
(***************************************************************************)

\* The engines a caller owns.
Engines == {1, 2}

VARIABLES
  hasher,           \* hasher[e]: the SHA256 value of engine e (len, buffer, hash)
  pc,               \* pc[e]: "live", "consumed" (moved into digest) or "panicked"
  result,           \* result[e]: the Digest returned by digest, <<>> before
  fed,              \* fed[e]: every byte passed to update so far, in order
  calls,            \* calls[e]: the update calls made so far: 0, 1 or 2 (several)
  overflow_checks,  \* whether the build panics on integer overflow
  objs,             \* per engine, the objects whose update_hash it was given
  compressed,       \* compressed[e]: every block update_block was given, in order
  text,             \* the text given to from_str
  parsed,           \* what from_str returned for text
  origin,           \* the digest that was formatted
  formatted,        \* the text Display wrote for origin
  stage,            \* "input", "parsed", "formatted", "reparsed"; "idle"
  probe             \* one call on an engine value: its arguments and its outcome

engine_vars ==
  <<hasher, pc, result, fed, calls, overflow_checks, objs, compressed>>
parse_vars == <<text, parsed, origin, formatted, stage>>
vars == <<engine_vars, parse_vars, probe>>

\* A faulty variant of Updated: one engine state shared by every handle.
UpdatedShared(e, r) ==
  /\ hasher' = [o \in Engines |-> r.self]
  /\ pc' = [pc EXCEPT ![e] = IF r.panicked THEN "panicked" ELSE "live"]
  /\ fed' = [fed EXCEPT ![e] = fed[e] \o r.passed]
  /\ calls' = [calls EXCEPT ![e] = min(calls[e] + 1, 2)]
  /\ compressed' = [compressed EXCEPT ![e] = compressed[e] \o r.blocks]
  /\ UNCHANGED <<result, overflow_checks, objs, parse_vars, probe>>

\* The effect on the caller's state of an update call that computed r.
Updated(e, r) ==
  /\ hasher' = [hasher EXCEPT ![e] = r.self]
  /\ pc' = [pc EXCEPT ![e] = IF r.panicked THEN "panicked" ELSE "live"]
  /\ fed' = [fed EXCEPT ![e] = fed[e] \o r.passed]
  /\ calls' = [calls EXCEPT ![e] = min(calls[e] + 1, 2)]
  /\ compressed' = [compressed EXCEPT ![e] = compressed[e] \o r.blocks]
  /\ UNCHANGED <<result, overflow_checks, objs, parse_vars, probe>>

\* Hasher::update(&mut self, data) on engine e.
Update(e, data) ==
  /\ pc[e] = "live"
  /\ Updated(e, update(hasher[e], data, overflow_checks))

\* A faulty variant of Digested: digest borrowing the engine (`&mut self`)
\* instead of taking it, so that the caller keeps a usable engine.
DigestedByReference(e, r) ==
  /\ result' = [result EXCEPT ![e] = r.digest]
  /\ pc' = [pc EXCEPT ![e] = IF r.panicked THEN "panicked" ELSE "live"]
  /\ compressed' = [compressed EXCEPT ![e] = compressed[e] \o r.blocks]
  /\ UNCHANGED <<hasher, fed, calls, overflow_checks, objs, parse_vars, probe>>

\* The effect on the caller's state of a digest call that computed r: the
\* engine was moved into the call (`fn digest(mut self)`), so that no later
\* call can name it.
Digested(e, r) ==
  /\ result' = [result EXCEPT ![e] = r.digest]
  /\ pc' = [pc EXCEPT ![e] = IF r.panicked THEN "panicked" ELSE "consumed"]
  /\ compressed' = [compressed EXCEPT ![e] = compressed[e] \o r.blocks]
  /\ UNCHANGED <<hasher, fed, calls, overflow_checks, objs, parse_vars, probe>>

\* Hasher::digest(self) on engine e.
Digest(e) ==
  /\ pc[e] = "live"
  /\ Digested(e, digest(hasher[e], overflow_checks))

\* The effect on the caller's state of an update_hash call that computed r.
UpdatedHash(e, obj, r) ==
  /\ hasher' = [hasher EXCEPT ![e] = r.self]
  /\ pc' = [pc EXCEPT ![e] = IF r.panicked THEN "panicked" ELSE "live"]
  /\ fed' = [fed EXCEPT ![e] = fed[e] \o r.passed]
  /\ objs' = [objs EXCEPT ![e] = Append(objs[e], obj)]
  /\ compressed' = [compressed EXCEPT ![e] = compressed[e] \o r.blocks]
  /\ UNCHANGED <<result, calls, overflow_checks, parse_vars, probe>>

\* obj.update_hash(&mut hasher).
UpdateHash(e, obj) ==
  /\ pc[e] = "live"
  /\ UpdatedHash(e, obj, update_hash(obj, no_calls(hasher[e]), overflow_checks))

\* Hasher::update(data) on the probed engine value.
CallUpdate ==
  /\ probe.op = "none"
  /\ probe' = [op |-> "update", self |-> probe.self, data |-> probe.data,
               out |-> update(probe.self, probe.data, overflow_checks)]
  /\ UNCHANGED <<engine_vars, parse_vars>>

\* Hasher::digest() on the probed engine value.
CallDigest ==
  /\ probe.op = "none"
  /\ probe' = [op |-> "digest", self |-> probe.self, data |-> probe.data,
               out |-> digest(probe.self, overflow_checks)]
  /\ UNCHANGED <<engine_vars, parse_vars>>

\* SHA256::update_block(block) on the probed engine value, called directly.
CallUpdateBlock ==
  /\ probe.op = "none"
  /\ Len(probe.data) = BlockSize
  /\ probe' = [op |-> "update_block", self |-> probe.self, data |-> probe.data,
               out |-> update_block(probe.self, probe.data)]
  /\ UNCHANGED <<engine_vars, parse_vars>>

\* Hasher::digest() on the engine value that the direct update_block left.
CallDigestAfterBlock ==
  /\ probe.op = "update_block"
  /\ probe' = [op |-> "block_digest", self |-> probe.self, data |-> probe.data,
               mid |-> probe.out, out |-> digest(probe.out, overflow_checks)]
  /\ UNCHANGED <<engine_vars, parse_vars>>

\* No text parsed yet.
NotParsed == [ok |-> FALSE, kind |-> "none", found |-> 0]

\* FixedDigest::from_str(text).
FromStr ==
  /\ stage = "input"
  /\ parsed' = from_str(DigestN, text)
  /\ stage' = "parsed"
  /\ UNCHANGED <<text, origin, formatted, engine_vars, probe>>

\* Display::fmt of the digest that from_str returned.
Format ==
  /\ stage = "parsed"
  /\ parsed.ok
  /\ origin' = parsed.value
  /\ formatted' = fmt(parsed.value)
  /\ stage' = "formatted"
  /\ UNCHANGED <<text, parsed, engine_vars, probe>>

\* FixedDigest::from_str of the text that Display wrote.
Reparse ==
  /\ stage = "formatted"
  /\ text' = formatted
  /\ parsed' = from_str(DigestN, formatted)
  /\ stage' = "reparsed"
  /\ UNCHANGED <<origin, formatted, engine_vars, probe>>

\* Every engine fresh from SHA256::new().  No reachable state overflows len,
\* so the build's overflow behaviour is never exercised here: the panicking
\* build is the one in which an overflow would show.
EnginesInit ==
  /\ hasher = [e \in Engines |-> new]
  /\ pc = [e \in Engines |-> "live"]
  /\ result = [e \in Engines |-> <<>>]
  /\ fed = [e \in Engines |-> <<>>]
  /\ calls = [e \in Engines |-> 0]
  /\ overflow_checks = TRUE
  /\ objs = [e \in Engines |-> <<>>]
  /\ compressed = [e \in Engines |-> <<>>]

\* No text is being parsed.
ParseIdle ==
  /\ text = <<>>
  /\ parsed = NotParsed
  /\ origin = <<>>
  /\ formatted = <<>>
  /\ stage = "idle"

\* No call is being probed.
ProbeIdle == probe = [op |-> "idle"]

Init == EnginesInit /\ ParseIdle /\ ProbeIdle

\* One caller driving engine 1 with the slices of a message.
Next ==
  \/ \E data \in NextSlices(fed[1], Messages, MaxFed) : Update(1, data)
  \/ Digest(1)

Spec == Init /\ [][Next]_vars

\* Two callers, each driving its own engine, in any interleaving.
NextPair ==
  \E e \in Engines :
    \/ \E data \in NextSlices(fed[e], PairMessages, MaxPairFed) : Update(e, data)
    \/ Digest(e)

SpecPair == Init /\ [][NextPair]_vars

\* A caller that hashes one object as sha256::hash does, or feeds texts one
\* after the other into a hasher and takes the digest.
NextHashable ==
  \/ \E obj \in Objects : objs[1] = <<>> /\ UpdateHash(1, obj)
  \/ \E obj \in TextObjects :
       /\ Len(objs[1]) < MaxTexts
       /\ \A i \in 1..Len(objs[1]) : objs[1][i].type = "str"
       /\ UpdateHash(1, obj)
  \/ Digest(1)

SpecHashable == Init /\ [][NextHashable]_vars

\* A caller that parses a text, formats the digest and parses that again.
InitParse ==
  /\ EnginesInit
  /\ text \in Texts
  /\ parsed = NotParsed
  /\ origin = <<>>
  /\ formatted = <<>>
  /\ stage = "input"
  /\ ProbeIdle

NextParse == FromStr \/ Format \/ Reparse

SpecParse == InitParse /\ [][NextParse]_vars

\* One call on an engine value, in a build with or without overflow checks.
InitCall ==
  /\ hasher = [e \in Engines |-> new]
  /\ pc = [e \in Engines |-> "live"]
  /\ result = [e \in Engines |-> <<>>]
  /\ fed = [e \in Engines |-> <<>>]
  /\ calls = [e \in Engines |-> 0]
  /\ objs = [e \in Engines |-> <<>>]
  /\ compressed = [e \in Engines |-> <<>>]
  /\ overflow_checks \in BOOLEAN
  /\ ParseIdle
  /\ \E self \in ProbeEngines, data \in ProbeSlices :
       probe = [op |-> "none", self |-> self, data |-> data]

NextCall == CallUpdate \/ CallDigest \/ CallUpdateBlock \/ CallDigestAfterBlock

SpecCall == InitCall /\ [][NextCall]_vars

(***************************************************************************)
(* C1.  Splitting invariance: whatever way the bytes of a message were cut *)
(* into the slices of successive update calls (empty slices included, cuts *)
(* before, on and after a block boundary), the digest returned is the      *)
(* digest of a fresh engine given the whole message in one update call.    *)
(***************************************************************************)
SplittingInvariance ==
  \A e \in Engines :
    pc[e] = "consumed" =>
      result[e] = hash_bytes(fed[e], overflow_checks).digest

\* A full block that was passed in several slices and then digested.
SplittingWitness ==
  /\ pc[1] = "consumed"
  /\ calls[1] = 2
  /\ fed[1] = Lorem64

(***************************************************************************)
(* C2.  new, update and digest compute FIPS 180-4 SHA-256: the digest is   *)
(* the hash of the message padded with 0x80, zeros and the 64-bit          *)
(* big-endian bit length to a multiple of 64 bytes, and the four test      *)
(* vectors (the empty input, "abc", "Hello, world!" and the 64-byte Lorem  *)
(* ipsum) have the published digests.                                      *)
(***************************************************************************)

\* FIPS 180-4, 5.1.1: the padded message.
FipsZeros(n) == (64 - ((n + 9) % 64)) % 64
FipsBitLength(n) ==
  [i \in 1..8 |-> IF i < 5 THEN 0 ELSE ((8 * n) \div (256 ^ (8 - i))) % 256]
FipsPadded(m) ==
  m \o <<128>> \o [i \in 1..FipsZeros(Len(m)) |-> 0] \o FipsBitLength(Len(m))

\* FIPS 180-4, 6.2.2: the hash value after the blocks from the i-th on.
RECURSIVE FipsBlocks(_, _, _)
FipsContinue(next, p, i) ==
  IF next = next THEN FipsBlocks(next, p, i) ELSE next
FipsBlocks(h, p, i) ==
  IF 64 * i > Len(p) THEN h
  ELSE FipsContinue(Compress(h, SubSeq(p, 64 * i - 63, 64 * i)), p, i + 1)

\* The words of a hash value as 32 bytes, and the words written in hex.
FipsBytes(h) ==
  [i \in 1..32 |->
     LET w == h[((i - 1) \div 4) + 1]
         half == IF ((i - 1) % 4) < 2 THEN w[1] ELSE w[2]
     IN  IF (i - 1) % 2 = 0 THEN half \div 256 ELSE half % 256]

FipsSha256(m) == FipsBytes(FipsBlocks(SEED, FipsPadded(m), 1))

\* The digests of the four test vectors.
DigestOfEmpty ==
  <<227, 176, 196, 66, 152, 252, 28, 20, 154, 251, 244, 200, 153,
    111, 185, 36, 39, 174, 65, 228, 100, 155, 147, 76, 164, 149,
    153, 27, 120, 82, 184, 85>>
DigestOfAbc ==
  <<186, 120, 22, 191, 143, 1, 207, 234, 65, 65, 64, 222, 93, 174,
    34, 35, 176, 3, 97, 163, 150, 23, 122, 156, 180, 16, 255, 97,
    242, 0, 21, 173>>
DigestOfHelloWorld ==
  <<49, 95, 91, 219, 118, 208, 120, 196, 59, 138, 192, 6, 78, 74,
    1, 100, 97, 43, 31, 206, 119, 200, 105, 52, 91, 252, 148, 199,
    88, 148, 237, 211>>
DigestOfLorem64 ==
  <<67, 173, 126, 231, 68, 14, 41, 4, 114, 136, 121, 0, 7, 24, 11,
    235, 107, 186, 106, 102, 117, 121, 240, 85, 233, 220, 220, 162,
    33, 228, 22, 29>>

KnownAnswers ==
  { <<(<<>>), DigestOfEmpty>>, <<Abc, DigestOfAbc>>,
    <<HelloWorld, DigestOfHelloWorld>>, <<Lorem64, DigestOfLorem64>> }

DigestIsSha256 ==
  \A e \in Engines :
    pc[e] = "consumed" =>
      /\ result[e] = FipsSha256(fed[e])
      /\ \A k \in KnownAnswers : fed[e] = k[1] => result[e] = k[2]

\* The 64-byte test vector, digested.
Sha256Witness ==
  /\ pc[1] = "consumed"
  /\ fed[1] = Lorem64
  /\ result[1] = DigestOfLorem64

(***************************************************************************)
(* C3.  from_str of a text whose length (str::len, in bytes) is not 2 * N  *)
(* fails with BadLength carrying that length and gives no digest, whatever *)
(* characters the text holds: the length is checked first.                 *)
(***************************************************************************)

\* The length of a text in bytes: one byte for an ASCII character, two up to
\* U+07FF, three above.
RECURSIVE ByteLength(_)
ByteLength(s) ==
  IF s = <<>> THEN 0
  ELSE (IF Head(s) < 128 THEN 1 ELSE IF Head(s) < 2048 THEN 2 ELSE 3)
       + ByteLength(Tail(s))

\* The characters [0-9a-fA-F].
HexDigits == (48..57) \cup (97..102) \cup (65..70)

FirstOffending(s) ==
  s[CHOOSE i \in 1..Len(s) :
      /\ s[i] \notin HexDigits
      /\ \A j \in 1..(i - 1) : s[j] \in HexDigits]

AllHex(s) == \A i \in 1..Len(s) : s[i] \in HexDigits

FirstBadCharacterReported ==
  stage = "parsed" =>
    /\ (ByteLength(text) = 2 * DigestN /\ ~AllHex(text)) =>
         parsed = BadChar(FirstOffending(text))
    /\ parsed.ok <=> (ByteLength(text) = 2 * DigestN /\ AllHex(text))

\* What holds of the code: the claim for the texts of ASCII characters, and
\* for every text the first byte outside [0-9a-fA-F] read as U+00xx.
FirstBadByteReported ==
  stage = "parsed" =>
    /\ (ByteLength(text) = 2 * DigestN /\ ~AllHex(text)) =>
         /\ parsed = BadChar(FirstOffending(as_bytes(text)))
         /\ (\A i \in 1..Len(text) : text[i] < 128) =>
              parsed = BadChar(FirstOffending(text))
    /\ parsed.ok <=> (ByteLength(text) = 2 * DigestN /\ AllHex(text))

(***************************************************************************)
(* C5.  Hex round trip: parsing the text written for a digest gives that   *)
(* digest back; and the text written for the digest parsed from a text h   *)
(* of 2 * N characters of [0-9a-fA-F] is h in lower case, 2 * N characters *)
(* long, the high nibble of each byte first.                               *)
(***************************************************************************)
LowerCase(s) ==
  [i \in 1..Len(s) |-> IF s[i] \in 65..90 THEN s[i] + 32 ELSE s[i]]

\* The value of a lower-case hexadecimal digit.
DigitValue(c) == IF c \in 48..57 THEN c - 48 ELSE c - 87

HexRoundTrip ==
  /\ stage = "formatted" =>
       /\ formatted = LowerCase(text)
       /\ Len(formatted) = 2 * DigestN
       /\ \A i \in 1..DigestN :
            origin[i] = 16 * DigitValue(formatted[2 * i - 1])
                        + DigitValue(formatted[2 * i])
  /\ stage = "reparsed" => parsed = Ok(origin)

\* The digest parsed from a text with upper-case digits, formatted and
\* parsed again.
HexRoundTripWitness ==
  /\ stage = "reparsed"
  /\ text = <<102, 97, 48, 57>>
  /\ origin = <<250, 9>>
  /\ parsed = Ok(origin)

(***************************************************************************)
(* C6.  Finalization is a one-time, terminal transition: once an engine    *)
(* has returned its digest, no step changes that engine again - no update, *)
(* no second digest - and the digest it returned stays the one it has.     *)
(***************************************************************************)
FinalizeIsTerminal ==
  [][\A e \in Engines :
       result[e] # <<>> =>
         /\ result'[e] = result[e]
         /\ pc'[e] = "consumed"
         /\ hasher'[e] = hasher[e]
         /\ fed'[e] = fed[e]]_vars

\* Engine 1 has been digested and engine 2 has been updated since.
FinalizeWitness ==
  /\ pc[1] = "consumed"
  /\ result[1] # <<>>
  /\ calls[1] = 0
  /\ calls[2] = 2
  /\ pc[2] = "live"

(***************************************************************************)
(* C7.  Canonical integer encoding: update_hash of an integer of width W,  *)
(* signed or unsigned, appends exactly W / 8 bytes, its big-endian (two's  *)
(* complement if signed) representation, and hash of the integer is        *)
(* hash_bytes of those bytes; hash(0x01020304u32) is                       *)
(* hash_bytes([1, 2, 3, 4]).                                               *)
(***************************************************************************)

\* The k-th byte of the magnitude of v, the most significant being the first.
MagByte(v, k) ==
  IF v.bits = 8 THEN v.mag[1]
  ELSE LET limb == v.mag[(k + 1) \div 2]
       IN  IF k % 2 = 1 THEN limb \div 256 ELSE limb % 256

\* The number with bytes b plus the magnitude of v is 2^bits: the sum of the
\* bytes at k and the carry from below is 0 modulo 256 at every k, and the
\* carry out of the first is 1.
RECURSIVE AddsToPower(_, _, _, _)
AddsToPower(b, v, k, carry) ==
  IF k = 0 THEN carry = 1
  ELSE /\ (b[k] + MagByte(v, k) + carry) % 256 = 0
       /\ AddsToPower(b, v, k - 1, (b[k] + MagByte(v, k) + carry) \div 256)

\* b is the big-endian representation of v in bits / 8 bytes.
IsBigEndianOf(b, v) ==
  /\ Len(b) = v.bits \div 8
  /\ \A k \in 1..Len(b) : b[k] \in 0..255
  /\ IF v.neg
     THEN b[1] >= 128 /\ AddsToPower(b, v, Len(b), 0)
     ELSE /\ \A k \in 1..Len(b) : b[k] = MagByte(v, k)
          /\ v.signed => b[1] < 128

\* The bytes are the representations of the integers, one after the other.
RECURSIVE IntegersEncoded(_, _)
IntegersEncoded(ints, bytes) ==
  IF ints = <<>> THEN bytes = <<>>
  ELSE /\ Len(bytes) >= Head(ints).bits \div 8
       /\ IsBigEndianOf(SubSeq(bytes, 1, Head(ints).bits \div 8), Head(ints))
       /\ IntegersEncoded(Tail(ints),
            SubSeq(bytes, Head(ints).bits \div 8 + 1, Len(bytes)))

\* The object is an integer or a slice of integers.
OfIntegers(o) ==
  \/ o.type = "int"
  \/ o.type = "slice" /\ \A i \in 1..Len(o.items) : o.items[i].type = "int"

\* The elements fed by the update_hash of an object.
Elements(o) == IF o.type = "slice" THEN o.items ELSE <<o>>

IntegerEncoding ==
  \A e \in Engines :
    (Len(objs[e]) = 1 /\ OfIntegers(objs[e][1])) =>
      /\ IntegersEncoded(Elements(objs[e][1]), fed[e])
      /\ pc[e] = "consumed" => result[e] = hash_bytes(fed[e], overflow_checks).digest

\* hash(0x01020304u32).
IntegerEncodingWitness ==
  /\ pc[1] = "consumed"
  /\ objs[1] = <<Integer(32, FALSE, FALSE, <<258, 772>>)>>
  /\ fed[1] = <<1, 2, 3, 4>>
  /\ result[1] = hash_bytes(<<1, 2, 3, 4>>, overflow_checks).digest

(***************************************************************************)
(* C8.  No framing: feeding a sequence of Hashable elements appends the    *)
(* concatenation of the elements' encodings in order and nothing else, so  *)
(* that the hash of a slice of u8 is hash_bytes of its bytes, and two      *)
(* sequences with the same concatenation leave the hasher in the same      *)
(* state and give the same digest.                                         *)
(***************************************************************************)

\* The elements fed by the update_hash of each object, in order.
RECURSIVE AllElements(_)
AllElements(os) ==
  IF os = <<>> THEN <<>> ELSE Elements(Head(os)) \o AllElements(Tail(os))

\* The encodings of the elements, one after the other.
RECURSIVE Concatenation(_)
Concatenation(elements) ==
  IF elements = <<>> THEN <<>>
  ELSE encoding(Head(elements)) \o Concatenation(Tail(elements))

\* The object is a slice of u8.
OfU8(o) ==
  /\ o.type = "slice"
  /\ \A i \in 1..Len(o.items) :
       o.items[i].type = "int" /\ o.items[i].bits = 8 /\ ~o.items[i].signed

FedIs(e, bytes) ==
  /\ fed[e] = bytes
  /\ hasher[e] = update(new, bytes, overflow_checks).self
  /\ pc[e] = "consumed" => result[e] = hash_bytes(bytes, overflow_checks).digest

NoFraming ==
  \A e \in Engines :
    objs[e] # <<>> =>
      /\ FedIs(e, Concatenation(AllElements(objs[e])))
      /\ OfU8(objs[e][1]) =>
           fed[e] = [i \in 1..Len(objs[e][1].items) |-> objs[e][1].items[i].mag[1]]

\* "ab" then "c" fed into one hasher: the bytes and the digest of "abc".
NoFramingWitness ==
  /\ pc[1] = "consumed"
  /\ objs[1] = <<Str(<<97, 98>>), Str(<<99>>)>>
  /\ fed[1] = Abc
  /\ result[1] = hash_bytes(Abc, overflow_checks).digest

\* The slices [0x6162u16, 0x6364u16], [0x61626364u32] and
\* [0x61u8, 0x62, 0x63, 0x64]: each leaves the hasher as the slice of bytes.
SameBytesWitness ==
  /\ pc[1] = "live"
  /\ objs[1] = <<Slice(<<Integer(16, FALSE, FALSE, <<24930>>),
                         Integer(16, FALSE, FALSE, <<25444>>)>>)>>
  /\ hasher[1] = update(new, <<97, 98, 99, 100>>, overflow_checks).self

(***************************************************************************)
(* C9.  Distinct engines are independent: every call changes one engine    *)
(* and leaves len, buffer and hash (and the digest) of the other as they   *)
(* were, and the digest of each engine is the one its own input gives a    *)
(* fresh engine run alone.                                                 *)
(***************************************************************************)
EnginesIndependent ==
  [][/\ \E e \in Engines :
          \A o \in Engines \ {e} :
            /\ hasher'[o] = hasher[o]
            /\ result'[o] = result[o]
            /\ pc'[o] = pc[o]
     /\ \A e \in Engines :
          pc'[e] = "consumed" =>
            result'[e] = hash_bytes(fed'[e], overflow_checks).digest]_vars

\* Both engines digested after interleaved updates with different inputs.
IndependenceWitness ==
  /\ pc[1] = "consumed"
  /\ pc[2] = "consumed"
  /\ calls[1] = 2
  /\ calls[2] = 1
  /\ fed[1] # fed[2]
  /\ result[1] # result[2]

BlockOf(m, j) == SubSeq(m, 64 * j - 63, 64 * j)

RepresentationInvariant ==
  \A e \in Engines :
    pc[e] = "live" =>
      /\ hasher[e].len = <<0, 0, Len(fed[e]) \div 65536, Len(fed[e]) % 65536>>
      /\ \A i \in 1..(Len(fed[e]) % 64) :
           hasher[e].buffer[i] = fed[e][Len(fed[e]) - (Len(fed[e]) % 64) + i]
      /\ hasher[e].hash = FipsBlocks(SEED, fed[e], 1)
      /\ Len(compressed[e]) = Len(fed[e]) \div 64
      /\ \A j \in 1..Len(compressed[e]) : compressed[e][j] = BlockOf(fed[e], j)

\* Two complete blocks and a tail of one byte, passed in several slices.
RepresentationWitness ==
  /\ pc[1] = "live"
  /\ calls[1] = 2
  /\ Len(fed[1]) = 129
  /\ Len(compressed[1]) = 2
  /\ hasher[1].buffer[1] = fed[1][129]

(***************************************************************************)
(* C12.  Whenever len mod 64 = 0 after an update call returns, the buffer  *)
(* has just been compressed into hash: the 64 bytes held in buffer are the *)
(* block that this update call compressed last.                            *)
(***************************************************************************)

\* An update call was probed and returned.
UpdateReturned == probe.op = "update" /\ ~probe.out.panicked

\* The hash words h after compressing the blocks from the i-th on.
RECURSIVE CompressFrom(_, _, _)
CompressNext(next, blocks, i) ==
  IF next = next THEN CompressFrom(next, blocks, i) ELSE next
CompressFrom(h, blocks, i) ==
  IF i > Len(blocks) THEN h
  ELSE CompressNext(Compress(h, blocks[i]), blocks, i + 1)

\* As stated, for every update call: it fails for a call with an empty slice,
\* which compresses nothing whatever len is.
BufferJustCompressed ==
  (UpdateReturned /\ probe.out.self.len[4] % 64 = 0) =>
    /\ probe.out.blocks # <<>>
    /\ probe.out.self.buffer = probe.out.blocks[Len(probe.out.blocks)]

\* For the calls that pass at least one byte.
BufferJustCompressedByCall ==
  (UpdateReturned /\ probe.data # <<>> /\ probe.out.self.len[4] % 64 = 0) =>
    /\ probe.out.blocks # <<>>
    /\ probe.out.self.buffer = probe.out.blocks[Len(probe.out.blocks)]
    /\ probe.out.self.hash = CompressFrom(probe.self.hash, probe.out.blocks, 1)

\* One byte passed to an engine that held 63: the buffer filled and compressed.
JustCompressedWitness ==
  /\ UpdateReturned
  /\ probe.self.len = <<0, 0, 0, 63>>
  /\ Len(probe.data) = 1
  /\ Len(probe.out.blocks) = 1
  /\ probe.out.self.buffer = probe.out.blocks[1]

(***************************************************************************)
(* C13.  Padding block count: digest compresses two blocks when the tail   *)
(* len mod 64 is 56..63 and one when it is at most 55, so that over the    *)
(* engine's life floor((len + 8) / 64) + 1 blocks are compressed: the      *)
(* padded message is the shortest multiple of 64 bytes that holds the      *)
(* message, the 0x80 byte and the 8 bytes of the length.                   *)
(***************************************************************************)
PaddingBlockCount ==
  \A e \in Engines :
    pc[e] = "consumed" =>
      /\ Len(compressed[e]) - (Len(fed[e]) \div 64)
           = IF Len(fed[e]) % 64 >= 56 THEN 2 ELSE 1
      /\ Len(compressed[e]) = ((Len(fed[e]) + 8) \div 64) + 1
      /\ 64 * Len(compressed[e]) >= Len(fed[e]) + 1 + 8
      /\ 64 * (Len(compressed[e]) - 1) < Len(fed[e]) + 1 + 8

\* A tail of exactly 56 bytes: the length no longer fits.
PaddingBlockCountWitness ==
  /\ pc[1] = "consumed"
  /\ Len(fed[1]) = 56
  /\ Len(compressed[1]) = 2

(***************************************************************************)
(* C14.  Padding layout: the blocks compressed by update and digest, in    *)
(* order, are the message, one 0x80 byte, only 0x00 bytes, and 8 * len as  *)
(* a 64-bit big-endian value in the last 8 bytes of the last block; no     *)
(* byte left in the buffer from a compressed block appears in the padding. *)
(***************************************************************************)
RECURSIVE Flatten(_)
Flatten(blocks) ==
  IF blocks = <<>> THEN <<>> ELSE Head(blocks) \o Flatten(Tail(blocks))

\* p is m, 0x80, zeroes and the bit length of m in the last 8 bytes.
IsPaddingOf(p, m) ==
  /\ Len(p) % 64 = 0
  /\ Len(p) >= Len(m) + 9
  /\ SubSeq(p, 1, Len(m)) = m
  /\ p[Len(m) + 1] = 128
  /\ \A i \in (Len(m) + 2)..(Len(p) - 8) : p[i] = 0
  /\ \A i \in (Len(p) - 7)..(Len(p) - 4) : p[i] = 0
  /\ ((p[Len(p) - 3] * 256 + p[Len(p) - 2]) * 256 + p[Len(p) - 1]) * 256
       + p[Len(p)] = 8 * Len(m)

PaddingLayout ==
  \A e \in Engines :
    pc[e] = "consumed" => IsPaddingOf(Flatten(compressed[e]), fed[e])

\* 65 bytes: the buffer still held bytes 2..64 of the first block when the
\* last block was built, and the last block has zeroes there.
PaddingLayoutWitness ==
  /\ pc[1] = "consumed"
  /\ Len(fed[1]) = 65
  /\ hasher[1].buffer[3] # 0
  /\ Len(compressed[1]) = 2
  /\ compressed[1][2][3] = 0

(***************************************************************************)
(* C15.  update_block on hash words H and a block computes: W[0..16] the   *)
(* 16 big-endian words of the block; W[i] = W[i-16] + s0(W[i-15]) +        *)
(* W[i-7] + s1(W[i-2]) for i in 16..64; 64 rounds of T1 and T2 with the    *)
(* shift of a..h; H[k] += working variable k.  Every addition is modulo    *)
(* 2^32: each hash word stays in 0 .. 2^32 - 1 and no addition fails.      *)
(***************************************************************************)

\* Bit i (0 the least significant) of the word x = <<high half, low half>>.
BitAt(x, i) ==
  IF i < 16 THEN (x[2] \div (2 ^ i)) % 2 ELSE (x[1] \div (2 ^ (i - 16))) % 2

\* The 16-bit number whose bit j is F(o + j), and the word whose bit i is F(i).
HalfOfBits(F(_), o) ==
  F(o) + 2 * F(o + 1) + 4 * F(o + 2) + 8 * F(o + 3) + 16 * F(o + 4)
  + 32 * F(o + 5) + 64 * F(o + 6) + 128 * F(o + 7) + 256 * F(o + 8)
  + 512 * F(o + 9) + 1024 * F(o + 10) + 2048 * F(o + 11) + 4096 * F(o + 12)
  + 8192 * F(o + 13) + 16384 * F(o + 14) + 32768 * F(o + 15)
WordOfBits(F(_)) == <<HalfOfBits(F, 16), HalfOfBits(F, 0)>>

\* FIPS 180-4, 4.1.2, bit by bit: ROTR^n(x) has at bit i the bit i + n of x.
RefBigSigma0(x) ==
  LET F(i) == (BitAt(x, (i + 2) % 32) + BitAt(x, (i + 13) % 32)
               + BitAt(x, (i + 22) % 32)) % 2
  IN  WordOfBits(F)
RefBigSigma1(x) ==
  LET F(i) == (BitAt(x, (i + 6) % 32) + BitAt(x, (i + 11) % 32)
               + BitAt(x, (i + 25) % 32)) % 2
  IN  WordOfBits(F)
RefSmallSigma0(x) ==
  LET F(i) == (BitAt(x, (i + 7) % 32) + BitAt(x, (i + 18) % 32)
               + (IF i + 3 < 32 THEN BitAt(x, i + 3) ELSE 0)) % 2
  IN  WordOfBits(F)
RefSmallSigma1(x) ==
  LET F(i) == (BitAt(x, (i + 17) % 32) + BitAt(x, (i + 19) % 32)
               + (IF i + 10 < 32 THEN BitAt(x, i + 10) ELSE 0)) % 2
  IN  WordOfBits(F)
\* Ch chooses the bit of y or of z by the bit of x; Maj is the majority.
RefCh(x, y, z) ==
  LET F(i) == IF BitAt(x, i) = 1 THEN BitAt(y, i) ELSE BitAt(z, i)
  IN  WordOfBits(F)
RefMaj(x, y, z) ==
  LET F(i) == IF BitAt(x, i) + BitAt(y, i) + BitAt(z, i) >= 2 THEN 1 ELSE 0
  IN  WordOfBits(F)

\* x + y modulo 2^32.
RefAdd(x, y) ==
  <<(x[1] + y[1] + ((x[2] + y[2]) \div 65536)) % 65536, (x[2] + y[2]) % 65536>>

\* The word of four bytes, the most significant first.
RefWord(b0, b1, b2, b3) == <<b0 * 256 + b1, b2 * 256 + b3>>

\* W[0..64] (W[i] at index i + 1), from the words w computed so far.
RECURSIVE RefSchedule(_)
RefScheduleNext(next) == IF next = next THEN RefSchedule(next) ELSE next
RefSchedule(w) ==
  IF Len(w) = 64 THEN w
  ELSE RefScheduleNext(
         Append(w, RefAdd(RefAdd(RefAdd(w[Len(w) - 16 + 1],
                                        RefSmallSigma0(w[Len(w) - 15 + 1])),
                                 w[Len(w) - 7 + 1]),
                          RefSmallSigma1(w[Len(w) - 2 + 1]))))

\* T1 and T2 of a round on v = <<a, b, c, d, e, f, g, h>>, and the shift.
RefT1(v, k, w) ==
  RefAdd(RefAdd(RefAdd(RefAdd(v[8], RefBigSigma1(v[5])),
                       RefCh(v[5], v[6], v[7])), k), w)
RefT2(v) == RefAdd(RefBigSigma0(v[1]), RefMaj(v[1], v[2], v[3]))
RefShift(v, t1, t2) ==
  <<RefAdd(t1, t2), v[1], v[2], v[3], RefAdd(v[4], t1), v[5], v[6], v[7]>>

RECURSIVE RefRounds(_, _, _)
RefRoundsNext(next, w, i) == IF next = next THEN RefRounds(next, w, i) ELSE next
RefRounds(v, w, i) ==
  IF i = 64 THEN v
  ELSE RefRoundsNext(RefShift(v, RefT1(v, RoundConstants[i + 1], w[i + 1]), RefT2(v)),
                     w, i + 1)

RefWorking(h, block) ==
  RefRounds(h,
            RefSchedule([i \in 1..16 |->
                           RefWord(block[4 * i - 3], block[4 * i - 2],
                                   block[4 * i - 1], block[4 * i])]),
            0)

RefCompressed(h, v) == [k \in 1..8 |-> RefAdd(h[k], v[k])]

\* A 32-bit word: two halves in 0 .. 2^16 - 1.
IsWord32(x) == x[1] \in 0..65535 /\ x[2] \in 0..65535

BlockCompression ==
  probe.op = "update_block" =>
    /\ probe.out.hash = RefCompressed(probe.self.hash,
                                      RefWorking(probe.self.hash, probe.data))
    /\ \A k \in 1..8 : IsWord32(probe.out.hash[k])

\* The block of 0xff bytes compressed into the hash words of an engine that
\* had compressed one block: additions that wrap.
BlockCompressionWitness ==
  /\ probe.op = "update_block"
  /\ probe.self.len = <<0, 0, 0, 64>>
  /\ probe.data = [i \in 1..BlockSize |-> 255]
  /\ probe.out.hash # probe.self.hash
  /\ \E k \in 1..8 :
       probe.out.hash[k][1] < probe.self.hash[k][1]

(***************************************************************************)
(* C16.  Length overflow is not detected: once 2^61 bytes or more have     *)
(* been appended, so that 8 * len does not fit in 64 bits, neither update  *)
(* nor digest reports or raises anything, and digest still returns a       *)
(* digest of 32 bytes.                                                     *)
(***************************************************************************)

\* len + k >= 2^61, for a len in four 16-bit limbs and a small k.
AtLeast2p61(len, k) ==
  \/ len[1] >= 8192
  \/ /\ len[1] = 8191
     /\ len[2] = 65535
     /\ len[3] = 65535
     /\ len[4] + k >= 65536

LengthOverflowNotDetected ==
  /\ (probe.op = "update" /\ AtLeast2p61(probe.self.len, Len(probe.data))) =>
       ~probe.out.panicked
  /\ (probe.op = "digest" /\ AtLeast2p61(probe.self.len, 0)) =>
       /\ ~probe.out.panicked
       /\ Len(probe.out.digest) = 32

\* What holds of the code: the claim in a build without overflow checks ...
NotDetectedWithoutChecks == ~overflow_checks => LengthOverflowNotDetected

\* ... and in a build with them, digest panics exactly from 2^61 bytes on and
\* update exactly when len would pass 2^64 - 1.
DetectedWithChecks ==
  overflow_checks =>
    /\ probe.op = "digest" =>
         (probe.out.panicked <=> AtLeast2p61(probe.self.len, 0))
    /\ probe.op = "update" =>
         (probe.out.panicked <=>
            /\ probe.self.len = <<65535, 65535, 65535, 65535>>
            /\ probe.data # <<>>)

(***************************************************************************)
(* C17.  Every update call terminates: each iteration of its loop consumes *)
(* at least 1 and at most 64 bytes (the buffer has 1..64 free bytes and at *)
(* least one byte remains), so that an update of k bytes makes at most     *)
(* ceil(k / 64) + 1 iterations; digest makes at most two compressions.     *)
(***************************************************************************)
IterationBounds ==
  /\ probe.op = "update" =>
       /\ space_in_buffer(probe.self.len) \in 1..64
       /\ space_in_buffer(probe.out.self.len) \in 1..64
       /\ \A idx \in 0..(Len(probe.data) - 1) :
            /\ copy_len(probe.self, probe.data, idx) \in 1..64
            /\ copy_len(probe.out.self, probe.data, idx) \in 1..64
       /\ probe.out.iters <= ((Len(probe.data) + 63) \div 64) + 1
       /\ probe.out.iters <= Len(probe.data)
       /\ ~probe.out.panicked => 64 * probe.out.iters >= Len(probe.data)
  /\ probe.op = "digest" => Len(probe.out.blocks) <= 2

\* Two bytes passed to an engine that held 63: two iterations, the most for
\* two bytes.
IterationBoundsWitness ==
  /\ UpdateReturned
  /\ probe.self.len = <<0, 0, 0, 63>>
  /\ Len(probe.data) = 2
  /\ probe.out.iters = 2

(***************************************************************************)
(* C18.  An update call with an empty slice is a no-op in every engine     *)
(* state: len, buffer and hash are unchanged and no block is compressed,   *)
(* also when len mod 64 = 0.                                               *)
(***************************************************************************)
EmptyUpdateIsNoOp ==
  (probe.op = "update" /\ probe.data = <<>>) =>
    /\ ~probe.out.panicked
    /\ probe.out.self.len = probe.self.len
    /\ probe.out.self.buffer = probe.self.buffer
    /\ probe.out.self.hash = probe.self.hash
    /\ probe.out.blocks = <<>>
    /\ probe.out.iters = 0

\* The empty slice passed to an engine that holds exactly one block.
EmptyUpdateWitness ==
  /\ UpdateReturned
  /\ probe.data = <<>>
  /\ probe.self.len = <<0, 0, 0, 64>>
  /\ probe.out.self = probe.self

(***************************************************************************)
(* C19.  The public update_block changes only the eight hash words: len    *)
(* and buffer are unchanged, so that a block a caller passes to it is      *)
(* mixed into hash but is not counted in len, nor in the bit length that   *)
(* digest writes.                                                          *)
(***************************************************************************)

\* len is below 2^16.
SmallLen(len) == len[1] = 0 /\ len[2] = 0 /\ len[3] = 0

\* The last 8 bytes of p are the 64-bit big-endian n, for an n below 2^16.
EndsWithLength(p, n) ==
  /\ Len(p) >= 8
  /\ \A i \in (Len(p) - 7)..(Len(p) - 2) : p[i] = 0
  /\ p[Len(p) - 1] * 256 + p[Len(p)] = n

UpdateBlockFrame ==
  /\ probe.op = "update_block" =>
       /\ probe.out.len = probe.self.len
       /\ probe.out.buffer = probe.self.buffer
       /\ probe.out.hash # probe.self.hash
  /\ (probe.op = "block_digest" /\ SmallLen(probe.self.len)) =>
       /\ ~probe.out.panicked
       /\ EndsWithLength(Flatten(probe.out.blocks), 8 * probe.self.len[4])
       /\ Len(probe.out.blocks) = IF probe.self.len[4] % 64 >= 56 THEN 2 ELSE 1

\* A block passed directly to an engine that held one byte: digest writes the
\* bit length 8.
UpdateBlockFrameWitness ==
  /\ probe.op = "block_digest"
  /\ probe.self.len = <<0, 0, 0, 1>>
  /\ probe.mid.len = <<0, 0, 0, 1>>
  /\ probe.mid.hash # probe.self.hash
  /\ EndsWithLength(Flatten(probe.out.blocks), 8)

=============================================================================
